---- MODULE Spec2Model ----
(***************************************************************************)
(* Model of the TradingView -> exchange webhook bots of this repository:   *)
(*   src/app.py                        (OKX bot: webhook, OKXTrader)       *)
(*   src/btc_auto_trading_complete.py  (Bybit testnet bot: webhook)        *)
(*                                                                         *)
(* Quantities (order sizes, position sizes, minSz, lotSz) are decimals in  *)
(* the source; here they are integers counting units of 0.001, the         *)
(* smallest size the source knows (the default lotSz).  One webhook        *)
(* request is handled at a time; its handling is cut at every call that    *)
(* goes out to the exchange.                                               *)
(***************************************************************************)
EXTENDS Integers, Sequences, FiniteSets, TLC

VARIABLES
    secret_key,      \* OKX_API_SECRET is set in the environment (app.py:115)
    instruments,     \* the exchange's rule (minSz, lotSz) for the symbols
    pc,              \* where the handling of the current request stands
    req,             \* the request being handled
    exchange_calls,  \* the calls that went out to the exchange for req, in order
    http,            \* the HTTP answer to req (status 0: none yet)
    positions,       \* close_position: the list get_positions returned
    idx,             \* close_position: index of the entry the loop is at
    closed_orders,   \* close_position: the results collected so far
    caller,          \* place_order: who called it ("webhook" or "close_position")
    order,           \* place_order: its arguments
    instrument_info, \* place_order: the rule get_instrument_info returned
    body,            \* place_order: the body of the order request it built
    result,          \* webhook: what place_order or close_position returned
    \* one call of make_request_with_proxy, step by step
    t_pc,            \* where the call stands
    t_method,        \* its method: "GET" or "POST"
    proxies_to_try,  \* get_working_proxy: the candidates random.sample drew
    t_next,          \* get_working_proxy: index of the candidate to probe next
    proxy,           \* the proxy get_working_proxy returned ("" for None)
    t_failed,        \* the candidates whose probe or real request failed
    t_sent,          \* the real requests issued, in order: "proxy", "direct"
    delivered,       \* how many times the request reached the exchange
    \* webhook requests handled at the same time, against one exchange account
    ex_position,     \* the exchange's position in the symbol, > 0 when long
    r_pc,            \* per request: where its handling stands
    r_kind,          \* per request: its action
    r_seen           \* per request: the position list get_positions returned

main_vars == <<secret_key, instruments, pc, req, exchange_calls, http, positions,
               idx, closed_orders, caller, order, instrument_info, body, result>>
transport_vars == <<t_pc, t_method, proxies_to_try, t_next, proxy, t_failed,
                    t_sent, delivered>>
race_vars == <<ex_position, r_pc, r_kind, r_seen>>

vars == <<main_vars, transport_vars, race_vars>>

(***************************** bounds **************************************)
MaxQty == 4          \* largest quantity a webhook asks for
MaxSz == 4           \* largest minSz / lotSz of an instrument
MaxHeld == 1         \* largest size of a held position
MaxPositions == 2    \* longest position list the exchange returns
MaxRacers == 2       \* requests webhook handles at the same time

(*************************** program constants *****************************)
NoValue == -1                       \* dict.get(...) of an absent key: None
expected_token == "piona0413"       \* validate_webhook_token's default secret
default_tdmode == "isolated"        \* OKXTrader.default_tdmode
default_market == "swap"            \* OKXTrader.default_market
DefaultQuantity == 1                \* 0.001, parse_tradingview_webhook
DefaultBybitQuantity == 10          \* 0.01, btc_auto_trading_complete.py webhook
DefaultInstrument == [minSz |-> 1, lotSz |-> 1]   \* {'minSz': '0.001', 'lotSz': '0.001'}

Symbols == {"BTC-USDT-SWAP", "ETH-USDT-SWAP"}
TheSymbol == "BTC-USDT-SWAP"
OtherSymbol == "ETH-USDT-SWAP"

Absent == "<absent>"                \* a key the payload does not carry

NoOrder == [symbol |-> "", side |-> "", amount |-> 0, price |-> NoValue,
            order_type |-> "", td_mode |-> Absent]
NoBody == [instId |-> ""]
NoRequest == [app |-> "none"]
NoAnswer == [status |-> 0, message |-> ""]
NoResult == [code |-> "", msg |-> "", data |-> <<>>]

(*************************** inputs ****************************************)
Tokens == {expected_token, "wrong", Absent}
BodyShapes == {"empty", "malformed", "nonobject", "missing", "object"}
Quantities == {NoValue} \cup (0..MaxQty)
Prices == {NoValue, 0, 1}
OrderTypes == {Absent, "market", "limit"}

Request(app, shape, token, action, quantity, price, order_type) ==
    [app |-> app, shape |-> shape, token |-> token, action |-> action,
     symbol |-> TheSymbol, quantity |-> quantity, price |-> price,
     order_type |-> order_type, side |-> Absent, qty |-> NoValue]

\* a body of the action/side/qty kind: {"action": ..., "side": ..., "qty": ...}
SideRequest(app, action, side, qty) ==
    [Request(app, "object", expected_token, action, NoValue, NoValue, Absent)
        EXCEPT !.side = side, !.qty = qty]

\* POST /webhook bodies sent to app.py
OkxRequests ==
    {Request("okx", sh, Absent, Absent, NoValue, NoValue, Absent) :
        sh \in BodyShapes \ {"object"}}
    \cup {Request("okx", "object", t, a, q, p, o) :
        t \in Tokens, a \in {"buy", "SELL"}, q \in Quantities, p \in Prices,
        o \in OrderTypes}
    \cup {Request("okx", "object", t, a, NoValue, NoValue, Absent) :
        t \in Tokens, a \in {"Close", "test"}}
    \cup {SideRequest("okx", "entry", sd, q) :
        sd \in {"long", "short"}, q \in 1..MaxQty}
    \cup {SideRequest("okx", "exit", Absent, NoValue)}

\* POST /webhook bodies sent to btc_auto_trading_complete.py; action holds
\* the payload's 'signal'
BybitRequests ==
    {Request("bybit", "object", t, s, q, NoValue, Absent) :
        t \in Tokens, s \in {"buy", "sell", "hold", Absent}, q \in Quantities}

\* what the exchange can hold as the rule of an instrument: lotSz > 0 and
\* minSz >= lotSz
InstrumentRules ==
    {r \in [minSz : 1..MaxSz, lotSz : 1..MaxSz] : r.lotSz <= r.minSz}

\* the entries of the exchange's answer to GET /api/v5/account/positions:
\* long and short entries carry a size >= 0, a net entry (one-way mode)
\* carries a signed size, positive when long
PositionEntries ==
    {[instId |-> TheSymbol, posSide |-> ps, pos |-> n, mgnMode |-> "cross"] :
        ps \in {"long", "short"}, n \in 1..MaxHeld}
    \cup {[instId |-> TheSymbol, posSide |-> "net", pos |-> n, mgnMode |-> "cross"] :
        n \in (-MaxHeld..MaxHeld) \ {0}}
    \cup {[instId |-> TheSymbol, posSide |-> "long", pos |-> 0, mgnMode |-> "cross"],
          [instId |-> TheSymbol, posSide |-> "net", pos |-> 0, mgnMode |-> Absent],
          [instId |-> OtherSymbol, posSide |-> "long", pos |-> 1, mgnMode |-> "cross"]}

PositionLists ==
    UNION {[1..n -> PositionEntries] : n \in 0..MaxPositions}

\* what the exchange answers to an order: the all-zero code, or a rejection
OrderAnswers ==
    {[code |-> "0", msg |-> "", data |-> <<>>],
     [code |-> "51008", msg |-> "Order failed. Insufficient balance", data |-> <<>>]}

\* what the exchange answers to the instrument query, and the query raising
InstrumentReplies == {"ok", "empty", "unparseable", "errcode", "nodata", "raise"}

(*************************** pure functions ********************************)
\* str.lower() on the action words the inputs use
Lower(s) ==
    CASE s = "SELL" -> "sell"
      [] s = "Close" -> "close"
      [] OTHER -> s

\* dict.get(key, default), for a number and for a string
GetNumber(v, default) == IF v = NoValue THEN default ELSE v
GetString(v, default) == IF v = Absent THEN default ELSE v

\* Python truthiness of a price: None and 0 are false
Truthy(p) == p # NoValue /\ p # 0

\* Python 3 round(a / b) for a >= 0, b > 0: to nearest, ties to even
Round(a, b) ==
    LET q == a \div b
        r == a % b
    IN  IF 2 * r < b THEN q
        ELSE IF 2 * r > b THEN q + 1
        ELSE IF q % 2 = 0 THEN q ELSE q + 1

validate_webhook_token(token) == token = expected_token

\* None is modelled by the record [ok |-> FALSE]
parse_tradingview_webhook(r) ==
    IF r.shape # "object"
    THEN [ok |-> FALSE]
    ELSE [ok |-> TRUE,
          action |-> Lower(r.action),
          symbol |-> r.symbol,
          quantity |-> GetNumber(r.quantity, DefaultQuantity),
          price |-> r.price,
          order_type |-> GetString(r.order_type, "market"),
          token |-> GetString(r.token, "")]

\* the outcomes of one make_request_with_proxy call: a response, or raise
make_request_with_proxy == {"response", "raise"}

\* no instrument rule: what place_order's "if not instrument_info" tests for
NoInfo == [none |-> TRUE]

\* get_instrument_info with nothing returned when the query raises
get_instrument_info_NoneOnRaise(reply) ==
    IF reply = "ok" THEN instruments
    ELSE IF reply = "raise" THEN NoInfo
    ELSE DefaultInstrument

get_instrument_info(reply) ==
    IF reply = "ok" THEN instruments ELSE DefaultInstrument

\* place_order's quantity check: FALSE when the order is refused
QuantityAccepted(amount, info) == ~(amount < info.minSz)

\* place_order's quantity adjustment
AdjustedAmount(amount, info) ==
    IF amount % info.lotSz # 0
    THEN Round(amount, info.lotSz) * info.lotSz
    ELSE amount

TdMode(td_mode) ==
    IF td_mode = Absent
    THEN IF default_market = "spot" THEN "cash" ELSE default_tdmode
    ELSE td_mode

\* the body of POST /api/v5/trade/order
OrderBody(symbol, td_mode, side, order_type, amount, price) ==
    IF Truthy(price) /\ order_type = "limit"
    THEN [instId |-> symbol, tdMode |-> td_mode, side |-> side,
          ordType |-> order_type, sz |-> amount, px |-> price]
    ELSE [instId |-> symbol, tdMode |-> td_mode, side |-> side,
          ordType |-> order_type, sz |-> amount]

CloseSide(pos_side) == IF pos_side = "long" THEN "sell" ELSE "buy"

Abs(n) == IF n < 0 THEN -n ELSE n

\* the result dicts of the source: code, msg, and data where it is a list
Result(code, msg) == [code |-> code, msg |-> msg, data |-> <<>>]

\* what the exchange answers to the position query for the symbol
PositionAnswers ==
    {[code |-> "0", msg |-> "", data |-> l] : l \in PositionLists}
    \cup {Result("50113", "Invalid Sign")}

\* the results place_order and close_position make themselves
QuantityRefused == Result("error", "quantity below minimum")
LookupFailed == Result("error", "instrument lookup failed")
NoPositionResult == Result("0", "no position to close")

\* the end of webhook: the answer made from the result of the trade
WebhookAnswer(r) ==
    IF r.code = "0"
    THEN [status |-> 200, message |-> "success"]
    ELSE [status |-> 500, message |-> r.msg]

(*************************** the handlers **********************************)
\* no call of make_request_with_proxy is under way
TransportIdle ==
    /\ t_pc = "idle"
    /\ t_method = ""
    /\ proxies_to_try = <<>>
    /\ t_next = 0
    /\ proxy = ""
    /\ t_failed = {}
    /\ t_sent = <<>>
    /\ delivered = 0

\* no requests are handled at the same time
RaceIdle ==
    /\ ex_position = 0
    /\ r_pc = <<>>
    /\ r_kind = <<>>
    /\ r_seen = <<>>

\* no request is being handled by webhook
MainIdle ==
    /\ pc = "idle"
    /\ req = NoRequest
    /\ exchange_calls = <<>>
    /\ http = NoAnswer
    /\ positions = <<>>
    /\ idx = 0
    /\ closed_orders = <<>>
    /\ caller = ""
    /\ order = NoOrder
    /\ instrument_info = DefaultInstrument
    /\ body = NoBody
    /\ result = NoResult

Init ==
    /\ TransportIdle
    /\ RaceIdle
    /\ secret_key \in BOOLEAN
    /\ instruments \in InstrumentRules
    /\ pc = "idle"
    /\ req = NoRequest
    /\ exchange_calls = <<>>
    /\ http = NoAnswer
    /\ positions = <<>>
    /\ idx = 0
    /\ closed_orders = <<>>
    /\ caller = ""
    /\ order = NoOrder
    /\ instrument_info = DefaultInstrument
    /\ body = NoBody
    /\ result = NoResult

\* an answer of webhook that is not made from a result of a trade
Respond(status, message) ==
    /\ http' = [status |-> status, message |-> message]
    /\ pc' = "done"
    /\ UNCHANGED result

\* the end of webhook: place_order or close_position returned r
Answer(r) ==
    /\ result' = r
    /\ http' = WebhookAnswer(r)
    /\ pc' = "done"

\* HasOpenPosition without its test of the size
HasOpenPosition_AnySize(pos, symbol) == pos.instId = symbol

\* the entries close_position closes
HasOpenPosition(pos, symbol) == pos.instId = symbol /\ pos.pos # 0

\* ListExhausted, with the loop also left at the first result that failed
ListExhausted_OrFailed ==
    \/ idx > Len(positions)
    \/ closed_orders # <<>> /\ closed_orders[Len(closed_orders)].code # "0"

\* close_position's for loop has no entry left
ListExhausted == idx > Len(positions)

\* webhook's test for the actions that place an order
IsTrade(action) == action \in {"buy", "sell"}

\* app.py webhook, up to the call of place_order or close_position
webhook ==
    /\ UNCHANGED <<transport_vars, race_vars>>
    /\ pc = "idle"
    /\ \E r \in OkxRequests :
        LET parsed_data == parse_tradingview_webhook(r)
        IN  /\ req' = r
            /\ IF r.shape = "empty"
               THEN Respond(400, "empty request") /\ UNCHANGED <<caller, order>>
               ELSE IF r.shape = "malformed"
               THEN Respond(500, "json.loads raised") /\ UNCHANGED <<caller, order>>
               ELSE IF ~parsed_data.ok
               THEN Respond(400, "bad data") /\ UNCHANGED <<caller, order>>
               ELSE IF ~validate_webhook_token(parsed_data.token)
               THEN Respond(403, "token error") /\ UNCHANGED <<caller, order>>
               ELSE IF IsTrade(parsed_data.action)
               THEN /\ pc' = "place_order"
                    /\ caller' = "webhook"
                    /\ order' = [symbol |-> parsed_data.symbol,
                                 side |-> parsed_data.action,
                                 amount |-> parsed_data.quantity,
                                 price |-> parsed_data.price,
                                 order_type |-> parsed_data.order_type,
                                 td_mode |-> Absent]
                    /\ UNCHANGED <<http, result>>
               ELSE IF parsed_data.action = "close"
               THEN /\ pc' = "close_position"
                    /\ UNCHANGED <<caller, order, http, result>>
               ELSE Respond(400, "unknown action") /\ UNCHANGED <<caller, order>>
    /\ UNCHANGED <<secret_key, instruments, exchange_calls, positions, idx,
                   closed_orders, instrument_info, body>>

\* get_positions: its result for an outcome of the transport and an answer
get_positions(outcome, answer) ==
    IF outcome = "raise" THEN Result("error", "transport error") ELSE answer

\* close_position, up to the loop: the position query.  Without a secret
\* key sign_request raises before the query goes out, and webhook answers 500
close_position ==
    /\ UNCHANGED <<transport_vars, race_vars>>
    /\ pc = "close_position"
    /\ IF ~secret_key
       THEN /\ Respond(500, "sign_request raised")
            /\ UNCHANGED <<exchange_calls, positions, idx, closed_orders>>
       ELSE \E outcome \in make_request_with_proxy, answer \in PositionAnswers :
            LET got == get_positions(outcome, answer)
            IN  /\ exchange_calls' =
                       Append(exchange_calls,
                              [kind |-> "positions", body |-> NoBody,
                               answer |-> IF outcome = "raise" THEN "raise"
                                          ELSE answer.code])
                /\ IF got.code # "0"
                   THEN /\ Answer(got)
                        /\ UNCHANGED <<positions, idx, closed_orders>>
                   ELSE /\ positions' = got.data
                        /\ idx' = 1
                        /\ closed_orders' = <<>>
                        /\ pc' = "close_position_loop"
                        /\ UNCHANGED <<http, result>>
    /\ UNCHANGED <<secret_key, instruments, req, caller, order, instrument_info,
                   body>>

\* close_position's loop: one entry of the list, or the end of the list
close_position_loop ==
    /\ UNCHANGED <<transport_vars, race_vars>>
    /\ pc = "close_position_loop"
    /\ IF ListExhausted
       THEN /\ Answer(IF closed_orders = <<>>
                       THEN NoPositionResult
                       ELSE [code |-> "0", msg |-> "", data |-> closed_orders])
            /\ UNCHANGED <<idx, caller, order>>
       ELSE LET pos == positions[idx]
            IN  IF HasOpenPosition(pos, req.symbol)
                THEN /\ pc' = "place_order"
                     /\ caller' = "close_position"
                     /\ order' = [symbol |-> req.symbol,
                                  side |-> CloseSide(pos.posSide),
                                  amount |-> Abs(pos.pos),
                                  price |-> NoValue,
                                  order_type |-> "market",
                                  td_mode |-> GetString(pos.mgnMode, default_tdmode)]
                     /\ UNCHANGED <<idx, http, result>>
                ELSE /\ idx' = idx + 1
                     /\ UNCHANGED <<pc, caller, order, http, result>>
    /\ UNCHANGED <<secret_key, instruments, req, exchange_calls, positions,
                   closed_orders, instrument_info, body>>

\* a return of place_order: to webhook, or to the loop of close_position
Return(r) ==
    IF caller = "webhook"
    THEN /\ Answer(r)
         /\ UNCHANGED <<idx, closed_orders>>
    ELSE /\ closed_orders' = Append(closed_orders, r)
         /\ idx' = idx + 1
         /\ pc' = "close_position_loop"
         /\ UNCHANGED <<http, result>>

\* place_order, up to the signed request: instrument query, quantity check
\* and adjustment, body.  Without a secret key sign_request raises, outside
\* any try, and webhook answers 500
place_order ==
    /\ UNCHANGED <<transport_vars, race_vars>>
    /\ pc = "place_order"
    /\ \E reply \in InstrumentReplies :
        LET info == get_instrument_info(reply)
        IN  /\ exchange_calls' =
                   Append(exchange_calls,
                          [kind |-> "instrument", body |-> NoBody,
                           answer |-> IF reply = "ok" THEN "0" ELSE "default"])
            /\ instrument_info' = info
            /\ IF info = NoInfo
               THEN /\ Return(LookupFailed)
                    /\ UNCHANGED body
               ELSE IF ~QuantityAccepted(order.amount, info)
               THEN /\ Return(QuantityRefused)
                    /\ UNCHANGED body
               ELSE IF ~secret_key
               THEN /\ Respond(500, "sign_request raised")
                    /\ UNCHANGED <<idx, closed_orders, body>>
               ELSE /\ body' = OrderBody(order.symbol, TdMode(order.td_mode),
                                         order.side, order.order_type,
                                         AdjustedAmount(order.amount, info),
                                         order.price)
                    /\ pc' = "place_order_send"
                    /\ UNCHANGED <<idx, closed_orders, http, result>>
    /\ UNCHANGED <<secret_key, instruments, req, positions, caller, order>>

\* place_order, the request: the order goes out, and its result comes back
place_order_send ==
    /\ UNCHANGED <<transport_vars, race_vars>>
    /\ pc = "place_order_send"
    /\ \E outcome \in make_request_with_proxy, answer \in OrderAnswers :
        /\ exchange_calls' =
               Append(exchange_calls,
                      [kind |-> "order", body |-> body,
                       answer |-> IF outcome = "raise" THEN "raise" ELSE answer.code])
        /\ Return(IF outcome = "raise"
                  THEN Result("error", "transport error")
                  ELSE answer)
    /\ UNCHANGED <<secret_key, instruments, req, positions, caller, order,
                   instrument_info, body>>

\* btc_auto_trading_complete.py webhook: the whole handler
bybit_webhook ==
    /\ UNCHANGED <<transport_vars, race_vars>>
    /\ pc = "idle"
    /\ \E r \in BybitRequests, outcome \in {"order", "raise"} :
        /\ req' = r
        /\ IF r.action = Absent
           THEN Respond(500, "KeyError") /\ UNCHANGED exchange_calls
           ELSE IF r.action \in {"buy", "sell"}
           THEN /\ exchange_calls' =
                       <<[kind |-> "order",
                          body |-> [category |-> "linear", symbol |-> "BTCUSDT",
                                    side |-> IF r.action = "buy" THEN "Buy" ELSE "Sell",
                                    order_type |-> "Market",
                                    qty |-> GetNumber(r.quantity, DefaultBybitQuantity),
                                    time_in_force |-> "GoodTillCancel"],
                          answer |-> IF outcome = "order" THEN "0" ELSE "raise"]>>
                /\ IF outcome = "order"
                   THEN Respond(200, "order")
                   ELSE Respond(500, "place_order raised")
           ELSE Respond(400, "Invalid signal") /\ UNCHANGED exchange_calls
    /\ UNCHANGED <<secret_key, instruments, positions, idx, closed_orders,
                   caller, order, instrument_info, body>>

\* the answer is sent; the server waits for the next request
serve_next ==
    /\ UNCHANGED <<transport_vars, race_vars>>
    /\ pc = "done"
    /\ pc' = "idle"
    /\ req' = NoRequest
    /\ exchange_calls' = <<>>
    /\ http' = NoAnswer
    /\ positions' = <<>>
    /\ idx' = 0
    /\ closed_orders' = <<>>
    /\ caller' = ""
    /\ order' = NoOrder
    /\ instrument_info' = DefaultInstrument
    /\ body' = NoBody
    /\ result' = NoResult
    /\ UNCHANGED <<secret_key, instruments>>

Next ==
    \/ webhook
    \/ close_position
    \/ close_position_loop
    \/ place_order
    \/ place_order_send
    \/ bybit_webhook
    \/ serve_next

Spec == Init /\ [][Next]_vars

(*************************** the transport *********************************)
FREE_PROXIES ==
    {"103.152.112.234:80", "185.162.231.106:80", "103.145.45.6:55443",
     "194.233.73.104:443", "103.149.162.195:80", "47.74.152.29:8888"}
SampleSize == 3

\* random.sample(FREE_PROXIES, min(3, len(FREE_PROXIES))): distinct candidates
ProxySamples ==
    {c \in [1..SampleSize -> FREE_PROXIES] :
        \A i, j \in 1..SampleSize : i # j => c[i] # c[j]}

\* how a real request through a connection can end: with a response, with an
\* error before the request reached the exchange, or with an error (a timeout,
\* a broken connection) after the exchange received it
RequestOutcomes == {"response", "failed_unsent", "failed_sent"}
Reached(outcome) == IF outcome = "failed_unsent" THEN 0 ELSE 1

InitTransport ==
    /\ TransportIdle
    /\ RaceIdle
    /\ MainIdle
    /\ secret_key = TRUE
    /\ instruments = DefaultInstrument

\* make_request_with_proxy is called: get_working_proxy draws its candidates
transport_start ==
    /\ t_pc = "idle"
    /\ \E m \in {"GET", "POST"}, c \in ProxySamples :
        /\ t_method' = m
        /\ proxies_to_try' = c
    /\ t_next' = 1
    /\ proxy' = ""
    /\ t_failed' = {}
    /\ t_sent' = <<>>
    /\ delivered' = 0
    /\ t_pc' = "get_working_proxy"
    /\ UNCHANGED <<main_vars, race_vars>>

\* get_working_proxy's loop: the probe of one candidate, or the end of the list
get_working_proxy ==
    /\ t_pc = "get_working_proxy"
    /\ IF t_next > Len(proxies_to_try)
       THEN /\ proxy' = ""
            /\ t_pc' = "direct"
            /\ UNCHANGED <<t_next, t_failed>>
       ELSE \E probe_ok \in BOOLEAN :
            IF probe_ok
            THEN /\ proxy' = proxies_to_try[t_next]
                 /\ t_pc' = "proxy"
                 /\ UNCHANGED <<t_next, t_failed>>
            ELSE /\ t_failed' = t_failed \cup {proxies_to_try[t_next]}
                 /\ t_next' = t_next + 1
                 /\ UNCHANGED <<t_pc, proxy>>
    /\ UNCHANGED <<t_method, proxies_to_try, t_sent, delivered>>
    /\ UNCHANGED <<main_vars, race_vars>>

\* the real request through the proxy get_working_proxy returned; when it
\* raises, the direct connection is next
proxy_request ==
    /\ t_pc = "proxy"
    /\ \E outcome \in RequestOutcomes :
        /\ t_sent' = Append(t_sent, "proxy")
        /\ delivered' = delivered + Reached(outcome)
        /\ IF outcome = "response"
           THEN t_pc' = "returned" /\ UNCHANGED t_failed
           ELSE t_pc' = "direct" /\ t_failed' = t_failed \cup {proxy}
    /\ UNCHANGED <<t_method, proxies_to_try, t_next, proxy>>
    /\ UNCHANGED <<main_vars, race_vars>>

\* the real request over the direct connection; when it raises, the call raises
direct_request ==
    /\ t_pc = "direct"
    /\ \E outcome \in RequestOutcomes :
        /\ t_sent' = Append(t_sent, "direct")
        /\ delivered' = delivered + Reached(outcome)
        /\ t_pc' = IF outcome = "response" THEN "returned" ELSE "raised"
    /\ UNCHANGED <<t_method, proxies_to_try, t_next, proxy, t_failed>>
    /\ UNCHANGED <<main_vars, race_vars>>

\* the call is over; the next call starts afresh
transport_end ==
    /\ t_pc \in {"returned", "raised"}
    /\ t_pc' = "idle"
    /\ t_method' = ""
    /\ proxies_to_try' = <<>>
    /\ t_next' = 0
    /\ proxy' = ""
    /\ t_failed' = {}
    /\ t_sent' = <<>>
    /\ delivered' = 0
    /\ UNCHANGED <<main_vars, race_vars>>

NextTransport ==
    \/ transport_start
    \/ get_working_proxy
    \/ proxy_request
    \/ direct_request
    \/ transport_end

SpecTransport == InitTransport /\ [][NextTransport]_vars

(******************* requests handled at the same time *********************)
\* webhook runs once per request, and nothing orders two runs: each takes its
\* own steps to the exchange.  The account holds one entry of the symbol,
\* ex_position, positive when long and negative when short; the instrument
\* rule is the default one, so that no quantity is refused or adjusted.
Racers == 1..MaxRacers

\* the exchange fills a market order in full: place_order's body carries
\* nothing that lets the exchange cap the fill at the size held
Fill(position, side, sz) ==
    IF side = "buy" THEN position + sz ELSE position - sz

\* the posSide of the entry the exchange reports for a position
PosSide(position) == IF position > 0 THEN "long" ELSE "short"

InitRace ==
    /\ TransportIdle
    /\ MainIdle
    /\ secret_key = TRUE
    /\ instruments = DefaultInstrument
    /\ ex_position \in -MaxHeld..MaxHeld
    /\ r_kind \in [Racers -> {"close", "buy", "sell"}]
    /\ r_pc = [i \in Racers |-> IF r_kind[i] = "close" THEN "close_position"
                                                       ELSE "place_order"]
    /\ r_seen = [i \in Racers |-> 0]

\* close_position of request i reads the position; with no open entry it
\* returns without an order
race_get_positions(i) ==
    /\ r_pc[i] = "close_position"
    /\ r_seen' = [r_seen EXCEPT ![i] = ex_position]
    /\ r_pc' = [r_pc EXCEPT ![i] = IF ex_position # 0 THEN "place_order"
                                                      ELSE "returned"]
    /\ UNCHANGED <<ex_position, r_kind, main_vars, transport_vars>>

\* place_order of request i: the order of a buy or sell request, or the
\* order close_position makes from the entry it read; the exchange fills it
\* or refuses it
race_place_order(i) ==
    /\ r_pc[i] = "place_order"
    /\ \E filled \in BOOLEAN :
        LET side == IF r_kind[i] = "close" THEN CloseSide(PosSide(r_seen[i]))
                                          ELSE r_kind[i]
            amount == IF r_kind[i] = "close" THEN Abs(r_seen[i])
                                            ELSE DefaultQuantity
        IN  ex_position' = IF filled THEN Fill(ex_position, side, amount)
                                     ELSE ex_position
    /\ r_pc' = [r_pc EXCEPT ![i] = "returned"]
    /\ UNCHANGED <<r_kind, r_seen, main_vars, transport_vars>>

NextRace ==
    \/ \E i \in Racers : race_get_positions(i)
    \/ \E i \in Racers : race_place_order(i)

SpecRace == InitRace /\ [][NextRace]_vars

(*************************** the claims ************************************)
IsOrder(c) == c.kind = "order"
\* the order requests that went out for the current request, in order
OrderCalls == SelectSeq(exchange_calls, IsOrder)

\* an app.py request that passed the token check
Authenticated ==
    req.app = "okx" /\ req.shape = "object" /\ req.token = expected_token
\* the action of the request, as webhook dispatches on it
Action == Lower(req.action)
\* close_position has its position list and runs (or ran) its loop
CloseRuns ==
    /\ Authenticated /\ Action = "close"
    /\ \/ pc \in {"close_position_loop", "place_order", "place_order_send"}
       \/ pc = "done" /\ result.code = "0"
\* close_position returned a result made by its loop
CloseReturned == Authenticated /\ Action = "close" /\ pc = "done" /\ result.code = "0"

\* the entries of a list that close_position has to close
IsOpen(pos) == pos.instId = req.symbol /\ pos.pos # 0
OpenEntries(list) == SelectSeq(list, IsOpen)

\* the direction an entry holds: a long entry, or a net entry of positive size,
\* is held Buy; a short entry, or a net entry of negative size, is held Sell
HeldSide(pos) ==
    IF pos.posSide = "long" THEN "buy"
    ELSE IF pos.posSide = "short" THEN "sell"
    ELSE IF pos.pos > 0 THEN "buy" ELSE "sell"
Opposite(side) == IF side = "buy" THEN "sell" ELSE "buy"

\* C1: a POST /webhook request whose token is not the configured secret is
\* rejected, and no call to the exchange is made while it is handled.
C1_TokenMismatchNoExchangeCall ==
    (req.app # "none" /\ req.token # expected_token) =>
        /\ exchange_calls = <<>>
        /\ pc = "done" => http.status # 200

\* C2: when the position query succeeded and no entry of the list is an entry
\* of the symbol with a size other than 0, close_position submits no order
\* and returns the no-position result.
C2_NoPositionNoOrder ==
    (CloseRuns /\ OpenEntries(positions) = <<>>) =>
        /\ OrderCalls = <<>>
        /\ pc # "place_order" /\ pc # "place_order_send"
        /\ pc = "done" => result = NoPositionResult /\ http.status = 200

\* C2 witness: close_position returned on a list that holds an entry of size 0
\* and an entry of another symbol, and nothing else.
C2_Witness ==
    /\ CloseReturned
    /\ Len(positions) = 2
    /\ positions[1].instId = req.symbol /\ positions[1].pos = 0
    /\ positions[2].instId # req.symbol /\ positions[2].pos # 0
    /\ result = NoPositionResult

\* C3: on a list with one long and one short entry of the symbol, both of
\* non-zero size, close_position submits exactly two orders, one per entry,
\* each on the side opposite to its entry and of that entry's own size,
\* whatever the instrument's minSz and lotSz.
C3_HedgeTwoOrders ==
    (/\ CloseReturned
     /\ Len(positions) = 2
     /\ IsOpen(positions[1]) /\ IsOpen(positions[2])
     /\ {positions[1].posSide, positions[2].posSide} = {"long", "short"}) =>
        /\ Len(OrderCalls) = 2
        /\ \A i \in 1..2 :
            /\ OrderCalls[i].body.side = Opposite(HeldSide(positions[i]))
            /\ OrderCalls[i].body.sz = Abs(positions[i].pos)

\* C4: every order close_position submits is a market order that carries
\* reduceOnly = true.
C4_CloseOrdersReduceOnly ==
    (Authenticated /\ Action = "close") =>
        \A i \in 1..Len(OrderCalls) :
            /\ OrderCalls[i].body.ordType = "market"
            /\ "reduceOnly" \in DOMAIN OrderCalls[i].body
            /\ OrderCalls[i].body.reduceOnly = TRUE

\* C5: the order close_position makes for an entry is on the side opposite to
\* the direction the entry holds, also for a net entry (one-way mode), whose
\* direction is the sign of its size.
C5_CloseSideOpposite ==
    (pc \in {"place_order", "place_order_send"} /\ caller = "close_position") =>
        order.side = Opposite(HeldSide(positions[idx]))

\* C6: in close_position a failure on one entry (transport error, rejection by
\* the exchange, quantity refused) does not stop the loop: every open entry
\* before the one the loop is at has its result, in order, every open entry
\* got its instrument query, and the result returned holds one result per
\* open entry.
C6_EveryEntryAttempted ==
    CloseRuns =>
        LET done == IF pc = "done" THEN positions ELSE SubSeq(positions, 1, idx - 1)
            results == IF pc = "done" THEN result.data ELSE closed_orders
            attempts == Len(SelectSeq(exchange_calls,
                                      LAMBDA c : c.kind = "instrument"))
        IN  /\ Len(results) = Len(OpenEntries(done))
            /\ attempts = Len(results)
                          + (IF pc = "place_order_send" THEN 1 ELSE 0)
            /\ pc \in {"place_order", "place_order_send"} => IsOpen(positions[idx])

\* C6 witness: close_position returned two results, the first one a failure
\* and the second one the answer of the exchange to the second entry's order.
C6_Witness ==
    /\ CloseReturned
    /\ Len(OpenEntries(positions)) = 2
    /\ Len(result.data) = 2
    /\ result.data[1].code # "0"
    /\ result.data[2].code = "0"
    /\ Len(OrderCalls) >= 1

\* C7: the quantity place_order puts in the order is an exact multiple of the
\* instrument's lotSz and is >= its minSz; place_order refuses the quantity
\* only when it is below minSz.
C7_QuantityNormalized ==
    /\ (req.app = "okx" /\ pc = "place_order_send") =>
           /\ body.sz % instrument_info.lotSz = 0
           /\ body.sz >= instrument_info.minSz
    /\ (req.app = "okx" /\ pc = "done" /\ result = QuantityRefused) =>
           order.amount < instrument_info.minSz

\* C8: an order place_order submits carries a price if and only if its
\* order type is limit.
C8_PriceIffLimit ==
    req.app = "okx" =>
        \A i \in 1..Len(OrderCalls) :
            ("px" \in DOMAIN OrderCalls[i].body)
                <=> (OrderCalls[i].body.ordType = "limit")

\* C9: an authenticated buy, sell or close request one of whose orders the
\* exchange answered with another code than "0" is answered 500 with the
\* exchange's message; 200 is answered only when every order submitted was
\* answered "0".
C9_ExchangeFailureIs500 ==
    (Authenticated /\ Action \in {"buy", "sell", "close"} /\ pc = "done") =>
        /\ (\E i \in 1..Len(OrderCalls) :
                OrderCalls[i].answer \notin {"0", "raise"}) =>
               /\ http.status = 500
               /\ \E a \in OrderAnswers : a.code # "0" /\ http.message = a.msg
        /\ http.status = 200 =>
               \A i \in 1..Len(OrderCalls) : OrderCalls[i].answer = "0"

\* C10: an authenticated buy or sell request whose quantity is below the
\* instrument's minSz is answered 400, and no order is submitted for it.
C10_BelowMinimumIs400 ==
    (/\ Authenticated /\ Action \in {"buy", "sell"} /\ pc = "done"
     /\ Len(exchange_calls) > 0
     /\ order.amount < instrument_info.minSz) =>
        /\ http.status = 400
        /\ OrderCalls = <<>>

Candidates == {proxies_to_try[i] : i \in 1..Len(proxies_to_try)}
Count(seq, x) == Cardinality({i \in 1..Len(seq) : seq[i] = x})

\* C11: make_request_with_proxy draws up to 3 candidates, goes on to the next
\* candidate when a probe or the real request through a probed candidate
\* fails, and uses the direct connection only after every candidate drawn has
\* failed its probe or its real request.
C11_DirectOnlyAfterAllCandidates ==
    /\ Len(proxies_to_try) <= SampleSize
    /\ (t_pc = "direct" \/ Count(t_sent, "direct") > 0) =>
           Candidates \subseteq t_failed

\* C19: one call of make_request_with_proxy for an order issues the real
\* request at most once through a proxy and at most once directly, and the
\* order reaches the exchange at most once, also when the request through the
\* proxy fails after the exchange received it.
C19_OrderDeliveredOnce ==
    t_method = "POST" =>
        /\ Count(t_sent, "proxy") <= 1
        /\ Count(t_sent, "direct") <= 1
        /\ delivered <= 1

\* C12: once an instrument query got a successful answer, no later lookup of
\* the rule of the same symbol issues another query to the exchange (every
\* request of the model names the same symbol).
C12_RulesQueriedOnce ==
    req.app = "okx" =>
        \A i, j \in 1..Len(exchange_calls) :
            (/\ i < j
             /\ exchange_calls[i].kind = "instrument"
             /\ exchange_calls[i].answer = "0") =>
                exchange_calls[j].kind # "instrument"

\* C17: without a secret key the failure comes at startup: no request to
\* app.py gets as far as a call to the exchange.
C17_NoSecretNoExchangeCall ==
    (~secret_key /\ req.app = "okx") => exchange_calls = <<>>

\* the last call made to the exchange is an instrument query that gave no
\* usable rule
DefaultsUsed ==
    /\ req.app = "okx"
    /\ exchange_calls # <<>>
    /\ exchange_calls[Len(exchange_calls)].kind = "instrument"
    /\ exchange_calls[Len(exchange_calls)].answer = "default"

\* C13: when the instrument query returns an empty body, an unparseable
\* body, a non-success code, an empty data list, or raises, the rule is the
\* default one (minSz = lotSz = 0.001), and place_order goes on with it: the
\* quantity is checked and adjusted against the default rule and, when
\* accepted, the order is built and sent.
C13_DefaultRuleOnFailedLookup ==
    DefaultsUsed =>
        /\ instrument_info = DefaultInstrument
        /\ result # LookupFailed
        /\ (\A r \in 1..Len(closed_orders) : closed_orders[r] # LookupFailed)
        /\ (secret_key /\ QuantityAccepted(order.amount, DefaultInstrument)) =>
               /\ pc = "place_order_send"
               /\ body.sz = AdjustedAmount(order.amount, DefaultInstrument)
        /\ pc = "place_order_send" =>
               QuantityAccepted(order.amount, DefaultInstrument)

\* C13 happens: the exchange has another rule than the default one, the query
\* of a buy or sell raised or was unusable, and the order is about to go out
C13_Witness ==
    /\ DefaultsUsed
    /\ instruments # DefaultInstrument
    /\ pc = "place_order_send"
    /\ caller = "webhook"

\* C14: a request whose body is empty or is not parseable as a JSON object
\* is answered with 400, and no call to the exchange is made for it.
C14_UnparseableBodyIs400 ==
    (/\ req.app = "okx"
     /\ req.shape \in {"empty", "malformed", "nonobject"}
     /\ pc = "done") =>
        /\ http.status = 400
        /\ exchange_calls = <<>>

\* the request passed the checks of its handler and its action is no word
\* of the vocabulary
UnknownAction ==
    \/ /\ Authenticated
       /\ Action \notin {"buy", "sell", "close", "entry", "exit", "stop",
                         "time_exit", "emergency_close"}
    \/ req.app = "bybit" /\ req.action \notin {"buy", "sell", Absent}

\* C15: an authenticated request with an action outside the vocabulary is
\* accepted but ignored: answered with 200, and no call to the exchange.
C15_UnknownActionIs200 ==
    (UnknownAction /\ pc = "done") =>
        /\ http.status = 200
        /\ exchange_calls = <<>>

\* C16: webhook translates both kinds of body for every word of the
\* vocabulary: signal/quantity bodies with signal buy or sell give a Buy or
\* Sell of the body's symbol and quantity; action/side/qty bodies with action
\* entry give a Buy for side long or buy and a Sell for side short or sell,
\* of the quantity in qty; the actions close, exit, stop, time_exit and
\* emergency_close give a Close.
C16_BothShapesTranslated ==
    pc = "done" =>
        /\ (Authenticated /\ Action = "entry") =>
               /\ caller = "webhook"
               /\ order.side = (IF req.side \in {"long", "buy"} THEN "buy" ELSE "sell")
               /\ order.amount = req.qty
        /\ (/\ Authenticated
            /\ Action \in {"close", "exit", "stop", "time_exit", "emergency_close"}) =>
               http.message # "unknown action"
        /\ (req.app = "bybit" /\ req.action \in {"buy", "sell"}) =>
               \A i \in 1..Len(exchange_calls) :
                   /\ exchange_calls[i].body.symbol = req.symbol
                   /\ exchange_calls[i].body.qty =
                          GetNumber(req.quantity, DefaultBybitQuantity)

\* request i's close_position sends the order it made from the entry it read
CloseOrderStep(i) ==
    r_kind[i] = "close" /\ r_pc[i] = "place_order" /\ r_pc'[i] = "returned"

\* C18: however the requests interleave, no order sent by close_position
\* opens a position in the other direction or makes a position larger: with
\* Close requests only on a long position, the position never becomes short.
C18_CloseNeverOvershoots ==
    [][\A i \in Racers :
          CloseOrderStep(i) =>
              /\ Abs(ex_position') <= Abs(ex_position)
              /\ ex_position' * ex_position >= 0]_vars

====
